---- MODULE Spec2Model ----
(***************************************************************************)
(* Model of gen-ads.py: a straight-line script that creates an output      *)
(* directory, draws three placeholder advertisement images with an imaging *)
(* library, saves each under a fixed file name and prints a confirmation.  *)
(*                                                                         *)
(* The script is modelled statement by statement (Prog), together with the *)
(* parts of its environment it touches: the output directory, the system   *)
(* font file, the text metrics of the imaging library and standard output. *)
(* The script may be run again after it ended (NextRun); the file system   *)
(* persists across runs, everything else belongs to one process.           *)
(***************************************************************************)
EXTENDS Integers, Sequences, FiniteSets

VARIABLES
    run,        \* number of the current run of the script (1, 2, ...)
    pc,         \* index into Prog of the next statement to execute
    status,     \* "running", "done" (fell off the end), "crashed" (uncaught exception)
    dirState,   \* what is at path OUT: "absent", "dir" or "file"
    files,      \* content of each file name of directory OUT
    fontAvail,  \* whether /System/Library/Fonts/Helvetica.ttc can be loaded now
    flips,      \* how often the availability of the font file changed
    metrics,    \* the text metrics of the imaging library on this machine
    img,        \* the module-level variables img / d: the current canvas
    fonts,      \* the module-level font variables f_main, f_dim, ...
    stdout,     \* the complete lines written to standard output by this run
    created,    \* history: number of canvases created by this run
    saved,      \* history: the (name, content) pairs saved by this run, in order
    atStart,    \* history: the files of the directory when this run started
    call        \* history: arguments and bounding box of the center_text call just made

vars == <<run, pc, status, dirState, files, fontAvail, flips, metrics,
          img, fonts, stdout, created, saved, atStart, call>>

(***************************************************************************)
(* Bounds of the model.                                                    *)
(***************************************************************************)
MaxRuns == 2
MaxFontFlips == 1

(***************************************************************************)
(* Literals of the script.                                                 *)
(***************************************************************************)
OUT == "/Users/frankgranato/Desktop/claude projects/PoolCue-v2/public/ads"

BG == <<10, 10, 10>>
GOLD == <<245, 197, 24>>
DIM == <<100, 100, 100>>
WHITE == <<220, 220, 220>>
DARK_LINE == <<30, 30, 30>>

\* Python's None
None == [kind |-> "none"]

\* The check mark U+2705 that starts each confirmation line is written CHECK.
CHECK == "(U+2705)"

BannerName == "ad-banner-1080x90.png"
IdleName == "ad-idle-1080x240.png"
SideName == "ad-side-1080x120.png"

Names == {BannerName, IdleName, SideName}

\* A file of the output directory that the script does not know about.
Other == "other.png"

AllNames == Names \cup {Other}

\* The statements of the script as they stand in the file.  The assignments of
\* the string variables line and sub (lines 41-42) are folded into their uses.
Script ==
    << [op |-> "makedirs", exist_ok |-> TRUE],
       \* 1. GAME BANNER
       [op |-> "new", size |-> <<1080, 90>>, color |-> BG],
       [op |-> "line", y |-> 1, w |-> 1080, margin |-> 40],
       [op |-> "font", var |-> "f_main", size |-> 22, bold |-> TRUE],
       [op |-> "font", var |-> "f_dim", size |-> 18, bold |-> FALSE],
       [op |-> "text", y |-> 20, text |-> "YOUR AD HERE", var |-> "f_main",
        fill |-> GOLD, img_w |-> 1080],
       [op |-> "text", y |-> 50, text |-> "Advertise on our boards  ·  poolcue.io",
        var |-> "f_dim", fill |-> DIM, img_w |-> 1080],
       [op |-> "save", name |-> BannerName],
       [op |-> "print", text |-> <<CHECK, " Banner 1080x90">>],
       \* 2. IDLE TOP/BOTTOM
       [op |-> "new", size |-> <<1080, 240>>, color |-> BG],
       [op |-> "line", y |-> 1, w |-> 1080, margin |-> 100],
       [op |-> "line", y |-> 238, w |-> 1080, margin |-> 100],
       [op |-> "font", var |-> "f_head", size |-> 36, bold |-> TRUE],
       [op |-> "font", var |-> "f_sub", size |-> 22, bold |-> FALSE],
       [op |-> "font", var |-> "f_contact", size |-> 20, bold |-> FALSE],
       [op |-> "text", y |-> 45, text |-> "YOUR AD HERE", var |-> "f_head",
        fill |-> GOLD, img_w |-> 1080],
       [op |-> "text", y |-> 100, text |-> "Interested in advertising on our boards?",
        var |-> "f_sub", fill |-> WHITE, img_w |-> 1080],
       [op |-> "text", y |-> 145, text |-> "Reach out at  poolcue.io",
        var |-> "f_contact", fill |-> DIM, img_w |-> 1080],
       [op |-> "font", var |-> "f_tiny", size |-> 13, bold |-> FALSE],
       [op |-> "text", y |-> 205, text |-> "POOL CUE", var |-> "f_tiny",
        fill |-> <<40, 40, 40>>, img_w |-> 1080],
       [op |-> "save", name |-> IdleName],
       [op |-> "print", text |-> <<CHECK, " Idle 1080x240">>],
       \* 3. SIDE AD
       [op |-> "new", size |-> <<1080, 120>>, color |-> BG],
       [op |-> "line", y |-> 1, w |-> 1080, margin |-> 60],
       [op |-> "line", y |-> 118, w |-> 1080, margin |-> 60],
       [op |-> "font", var |-> "f_side", size |-> 26, bold |-> TRUE],
       [op |-> "font", var |-> "f_side_sub", size |-> 18, bold |-> FALSE],
       [op |-> "text", y |-> 25, text |-> "YOUR AD HERE", var |-> "f_side",
        fill |-> GOLD, img_w |-> 1080],
       [op |-> "text", y |-> 65, text |-> "Advertise on our boards  ·  poolcue.io",
        var |-> "f_side_sub", fill |-> DIM, img_w |-> 1080],
       [op |-> "save", name |-> SideName],
       [op |-> "print", text |-> <<CHECK, " Side 1080x120">>],
       [op |-> "print", text |-> <<"\n", "All ads saved to ", OUT>>] >>

\* A script that prints each confirmation before it saves the image.
ProgPrintBeforeSave ==
    [i \in 1..Len(Script) |->
        IF Script[i].op = "save" THEN Script[i + 1]
        ELSE IF i > 1 /\ Script[i - 1].op = "save" THEN Script[i - 1]
        ELSE Script[i]]

\* Python executes the statements of the file from top to bottom.
Prog == Script

\* The width and height spelled in each output file name (lines 47, 70, 89).
SizeInName(n) ==
    CASE n = BannerName -> <<1080, 90>>
      [] n = IdleName -> <<1080, 240>>
      [] n = SideName -> <<1080, 120>>

FontVars == {"f_main", "f_dim", "f_head", "f_sub", "f_contact", "f_tiny",
             "f_side", "f_side_sub"}

\* The statement about to be executed, or a pseudo statement past the end.
Stmt == IF pc <= Len(Prog) THEN Prog[pc] ELSE [op |-> "end"]

At(o) == status = "running" /\ Stmt.op = o

(***************************************************************************)
(* The imaging library and the operating system, as far as the script      *)
(* uses them.                                                              *)
(***************************************************************************)

\* Files: a name of the directory maps to Absent, to Old (content that was
\* there before the first run), to Partial (what a failed write left) or to
\* the canvas that was saved under the name.
Absent == [kind |-> "absent"]
Old == [kind |-> "old"]
Partial == [kind |-> "partial"]

\* ImageFont.truetype(path, size, index=idx) and ImageFont.load_default()
TrueType(size, idx) == [kind |-> "truetype", size |-> size, index |-> idx]
load_default == [kind |-> "default", size |-> 10, index |-> 0]

\* The text metrics the library can have: the left edge it reports for text
\* measured at the origin, and the advance per character in half font sizes
\* (1: about half an em, 4: a very wide face).
LeftEdges == {-1, 0, 2}
Advances == {1, 4}
Metrics == [left : LeftEdges, adv : Advances]

\* draw.textbbox(xy, text, font=fnt): (left, top, right, bottom)
textbbox(xy, text, fnt) ==
    LET w == IF fnt.kind = "truetype"
             THEN (Len(text) * fnt.size * metrics.adv) \div 2
             ELSE Len(text) * 6
    IN  << xy[1] + metrics.left, xy[2] + fnt.size \div 5,
           xy[1] + w, xy[2] + fnt.size >>

\* Python's true division of two integers: the exact quotient n / d.
TrueDiv(n, d) == [n |-> n, d |-> d]

\* Image.new with width and height taken in the wrong order.
Image_new_swapped(size, color) ==
    [kind |-> "image", size |-> <<size[2], size[1]>>, color |-> color, ops |-> <<>>]

\* Image.new('RGB', size, color): a canvas of that size filled with color.
Image_new(size, color) ==
    [kind |-> "image", size |-> size, color |-> color, ops |-> <<>>]

\* draw.line(points, fill=, width=): drawing does not resize the canvas.
draw_line(draw, points, fill, width) ==
    [draw EXCEPT !.ops = Append(@, [kind |-> "line", points |-> points,
                                    fill |-> fill, width |-> width])]

\* draw.text(xy, text, font=, fill=): no wrapping, no clamping of xy.
draw_text(draw, xy, text, fnt, fill) ==
    [draw EXCEPT !.ops = Append(@, [kind |-> "text", xy |-> xy, text |-> text,
                                    font |-> fnt, fill |-> fill])]

\* os.makedirs(name) without exist_ok=True: anything at the path is an error.
os_makedirs_strict(state, exist_ok, mkdirOk) ==
    IF state = "absent" /\ mkdirOk THEN [err |-> FALSE, state |-> "dir"]
    ELSE [err |-> TRUE, state |-> state]

\* os.makedirs(name, exist_ok): creates the directory when nothing is at the
\* path (which the system may refuse, mkdirOk); raises FileExistsError when
\* something is there, unless exist_ok is set and it is a directory.
os_makedirs(state, exist_ok, mkdirOk) ==
    IF state = "absent"
    THEN IF mkdirOk THEN [err |-> FALSE, state |-> "dir"]
                    ELSE [err |-> TRUE, state |-> state]
    ELSE IF ~exist_ok \/ state # "dir"
         THEN [err |-> TRUE, state |-> state]
         ELSE [err |-> FALSE, state |-> state]

\* A save that leaves a file alone that is already there.
img_save_keep(fs, name, im, ioOk, partial) ==
    IF fs[name] # Absent THEN [err |-> FALSE, files |-> fs]
    ELSE [err |-> ~ioOk, files |-> IF ioOk THEN [fs EXCEPT ![name] = im] ELSE fs]

\* img.save(path, 'PNG'): opens the file for writing, which replaces what was
\* there, and writes the canvas.  When the system refuses (ioOk false) the
\* call raises and the file is as it was or holds a partial write.
img_save(fs, name, im, ioOk, partial) ==
    IF ioOk THEN [err |-> FALSE, files |-> [fs EXCEPT ![name] = im]]
    ELSE [err |-> TRUE,
          files |-> IF partial THEN [fs EXCEPT ![name] = Partial] ELSE fs]

\* The lines of a text: its pieces joined, cut at each newline.
RECURSIVE SplitLines(_, _)
SplitLines(pieces, cur) ==
    IF pieces = <<>> THEN <<cur>>
    ELSE IF Head(pieces) = "\n" THEN <<cur>> \o SplitLines(Tail(pieces), "")
    ELSE SplitLines(Tail(pieces), cur \o Head(pieces))

\* print(text): writes text and a newline; out holds the complete lines.
print(out, text) == out \o SplitLines(text, "")

(***************************************************************************)
(* The functions of the script.                                            *)
(***************************************************************************)

\* font without the try/except: the failure propagates.
font_noexcept(size, bold, loadOk) ==
    LET idx == IF bold THEN 1 ELSE 0
    IN  IF loadOk THEN TrueType(size, idx) ELSE [kind |-> "raise"]

\* def font(size, bold=False)
font(size, bold, loadOk) ==
    LET idx == IF bold THEN 1 ELSE 0
    IN  IF loadOk THEN TrueType(size, idx) ELSE load_default

\* center_text with floor division (//) in place of true division (/).
center_text_floor(draw, y, text, fnt, fill, img_w) ==
    LET bbox == textbbox(<<0, 0>>, text, fnt)
        tw == bbox[3] - bbox[1]
    IN  draw_text(draw, <<TrueDiv((img_w - tw) \div 2, 1), y>>, text, fnt, fill)

\* def center_text(draw, y, text, fnt, fill, img_w)
center_text(draw, y, text, fnt, fill, img_w) ==
    LET bbox == textbbox(<<0, 0>>, text, fnt)
        tw == bbox[3] - bbox[1]
    IN  draw_text(draw, <<TrueDiv(img_w - tw, 2), y>>, text, fnt, fill)

\* draw_gold_line drawing a rule at the top and one at the bottom.
draw_gold_line_twice(draw, y, w, margin) ==
    draw_line(draw_line(draw, <<<<margin, y>>, <<w - margin, y>>>>, DARK_LINE, 1),
              <<<<margin, y + 1>>, <<w - margin, y + 1>>>>, DARK_LINE, 1)

\* def draw_gold_line(draw, y, w, margin=80)
draw_gold_line(draw, y, w, margin) ==
    draw_line(draw, <<<<margin, y>>, <<w - margin, y>>>>, DARK_LINE, 1)

(***************************************************************************)
(* The run of the script, one action per kind of statement.                *)
(***************************************************************************)

\* Control passes to the next statement; past the last one the run is done.
Advance ==
    /\ pc' = pc + 1
    /\ status' = IF pc + 1 > Len(Prog) THEN "done" ELSE "running"

\* An exception nobody catches ends the run at the statement that raised it.
Crash ==
    /\ pc' = pc
    /\ status' = "crashed"

\* os.makedirs(OUT, exist_ok=True)
MakeDirs ==
    /\ At("makedirs")
    /\ \E mkdirOk \in BOOLEAN :
          LET r == os_makedirs(dirState, Stmt.exist_ok, mkdirOk)
          IN  /\ dirState' = r.state
              /\ IF r.err THEN Crash ELSE Advance
    /\ call' = None
    /\ UNCHANGED <<run, files, fontAvail, flips, metrics, img, fonts, stdout,
                   created, saved, atStart>>

\* img = Image.new('RGB', size, BG); d = ImageDraw.Draw(img)
NewImage ==
    /\ At("new")
    /\ img' = Image_new(Stmt.size, Stmt.color)
    /\ created' = created + 1
    /\ call' = None
    /\ Advance
    /\ UNCHANGED <<run, dirState, files, fontAvail, flips, metrics, fonts, stdout,
                   saved, atStart>>

\* draw_gold_line(d, y, 1080, margin)
DrawGoldLine ==
    /\ At("line")
    /\ img' = draw_gold_line(img, Stmt.y, Stmt.w, Stmt.margin)
    /\ call' = None
    /\ Advance
    /\ UNCHANGED <<run, dirState, files, fontAvail, flips, metrics, fonts, stdout,
                   created, saved, atStart>>

\* A font step that reports the fallback on standard output.
FontNoisy ==
    /\ At("font")
    /\ LET f == font(Stmt.size, Stmt.bold, fontAvail)
       IN  /\ fonts' = [fonts EXCEPT ![Stmt.var] = f]
           /\ stdout' = IF f.kind = "default"
                        THEN print(stdout, <<"font not found, using default">>)
                        ELSE stdout
    /\ Advance
    /\ call' = None
    /\ UNCHANGED <<run, dirState, files, fontAvail, flips, metrics, img,
                   created, saved, atStart>>

\* f = font(size, bold): the load succeeds exactly when the font file is usable.
Font ==
    /\ At("font")
    /\ LET f == font(Stmt.size, Stmt.bold, fontAvail)
       IN  IF f.kind = "raise"
           THEN Crash /\ fonts' = fonts
           ELSE Advance /\ fonts' = [fonts EXCEPT ![Stmt.var] = f]
    /\ call' = None
    /\ UNCHANGED <<run, dirState, files, fontAvail, flips, metrics, img, stdout,
                   created, saved, atStart>>

\* center_text(d, y, text, f, fill, 1080)
CenterText ==
    /\ At("text")
    /\ img' = center_text(img, Stmt.y, Stmt.text, fonts[Stmt.var], Stmt.fill,
                          Stmt.img_w)
    /\ call' = [kind |-> "center_text", y |-> Stmt.y, text |-> Stmt.text,
                fnt |-> fonts[Stmt.var], img_w |-> Stmt.img_w,
                bbox |-> textbbox(<<0, 0>>, Stmt.text, fonts[Stmt.var])]
    /\ Advance
    /\ UNCHANGED <<run, dirState, files, fontAvail, flips, metrics, fonts, stdout,
                   created, saved, atStart>>

\* A save whose failure is swallowed: the script goes on.
SaveSwallow ==
    /\ At("save")
    /\ \E ioOk \in BOOLEAN, partial \in BOOLEAN :
          LET r == img_save(files, Stmt.name, img, ioOk, partial)
          IN  /\ files' = r.files
              /\ saved' = IF r.err THEN saved
                          ELSE Append(saved, [name |-> Stmt.name, content |-> img])
    /\ Advance
    /\ call' = None
    /\ UNCHANGED <<run, dirState, fontAvail, flips, metrics, img, fonts, stdout,
                   created, atStart>>

\* img.save(os.path.join(OUT, name), 'PNG')
Save ==
    /\ At("save")
    /\ \E ioOk \in BOOLEAN, partial \in BOOLEAN :
          LET r == img_save(files, Stmt.name, img, ioOk, partial)
          IN  /\ files' = r.files
              /\ IF r.err
                 THEN Crash /\ saved' = saved
                 ELSE /\ Advance
                      /\ saved' = Append(saved, [name |-> Stmt.name, content |-> img])
    /\ call' = None
    /\ UNCHANGED <<run, dirState, fontAvail, flips, metrics, img, fonts, stdout,
                   created, atStart>>

\* print(text)
PrintStmt ==
    /\ At("print")
    /\ stdout' = print(stdout, Stmt.text)
    /\ call' = None
    /\ Advance
    /\ UNCHANGED <<run, dirState, files, fontAvail, flips, metrics, img, fonts,
                   created, saved, atStart>>

\* The environment: the font file appears or disappears while the script
\* runs.  Only font() looks at the file, so a change at any other moment is
\* the same as a change just before the next call of font().
FontFileChange ==
    /\ At("font")
    /\ flips < MaxFontFlips
    /\ fontAvail' = ~fontAvail
    /\ flips' = flips + 1
    /\ UNCHANGED <<run, pc, status, dirState, files, metrics, img, fonts, stdout,
                   created, saved, atStart, call>>

\* The script is started again: a new process over the same file system.
NextRun ==
    /\ status \in {"done", "crashed"}
    /\ run < MaxRuns
    /\ run' = run + 1
    /\ pc' = 1
    /\ status' = "running"
    /\ img' = None
    /\ fonts' = [v \in FontVars |-> None]
    /\ stdout' = <<>>
    /\ created' = 0
    /\ saved' = <<>>
    /\ atStart' = files
    /\ call' = None
    /\ UNCHANGED <<dirState, files, fontAvail, flips, metrics>>

\* The first run starts with nothing, a directory or a plain file at OUT; a
\* directory holds the three outputs of an earlier generation or none of them
\* (a subset of them is what a crashed run leaves, see Save), and possibly a
\* file of somebody else.
Init ==
    /\ run = 1
    /\ pc = 1
    /\ status = "running"
    /\ dirState \in {"absent", "dir", "file"}
    /\ \E ads \in {Absent, Old}, other \in {Absent, Old} :
          files = [n \in AllNames |-> IF n = Other THEN other ELSE ads]
    /\ dirState # "dir" => \A n \in AllNames : files[n] = Absent
    /\ fontAvail \in BOOLEAN
    /\ flips = 0
    /\ metrics \in Metrics
    /\ img = None
    /\ fonts = [v \in FontVars |-> None]
    /\ stdout = <<>>
    /\ created = 0
    /\ saved = <<>>
    /\ atStart = files
    /\ call = None

Next ==
    \/ MakeDirs
    \/ NewImage
    \/ DrawGoldLine
    \/ Font
    \/ CenterText
    \/ Save
    \/ PrintStmt
    \/ FontFileChange
    \/ NextRun

Spec == Init /\ [][Next]_vars

(***************************************************************************)
(* Vocabulary of the properties.                                           *)
(***************************************************************************)

BannerLine == CHECK \o " Banner 1080x90"
IdleLine == CHECK \o " Idle 1080x240"
SideLine == CHECK \o " Side 1080x120"
SummaryLine == "All ads saved to " \o OUT
ConfirmLines == <<BannerLine, IdleLine, SideLine>>

\* The names in the order in which the script saves them.
NameOrder == <<BannerName, IdleName, SideName>>

NumOps(im, k) == Cardinality({i \in 1..Len(im.ops) : im.ops[i].kind = k})

NumConfirm == Cardinality({i \in 1..Len(stdout) :
                              \E j \in 1..3 : stdout[i] = ConfirmLines[j]})

SavedNames == {saved[i].name : i \in 1..Len(saved)}

\* The statement the run executed last, when control moved on from it.
LastOp == IF pc > 1 THEN Prog[pc - 1] ELSE [op |-> "start"]

\* The last drawing operation on the current canvas.
LastDrawn == img.ops[Len(img.ops)]

IsPrefix(a, b) == Len(a) <= Len(b) /\ a = SubSeq(b, 1, Len(a))

\* The size given to the latest Image.new before statement p.
RECURSIVE SizeCreatedBefore(_)
SizeCreatedBefore(p) ==
    IF p <= 1 THEN <<0, 0>>
    ELSE IF Prog[p - 1].op = "new" THEN Prog[p - 1].size
    ELSE SizeCreatedBefore(p - 1)

(***************************************************************************)
(* C1: every canvas that is saved has the specified size (banner 1080x90,  *)
(* idle 1080x240, side 1080x120); between its creation and its save the    *)
(* canvas keeps the size it was created with; and the size spelled in each *)
(* output file name is the size of the canvas saved under that name.       *)
(***************************************************************************)
C1_SavedDimensions ==
    /\ \A i \in 1..Len(saved) :
          /\ saved[i].content.size = SizeInName(saved[i].name)
          /\ saved[i].name = BannerName => saved[i].content.size = <<1080, 90>>
          /\ saved[i].name = IdleName => saved[i].content.size = <<1080, 240>>
          /\ saved[i].name = SideName => saved[i].content.size = <<1080, 120>>
    /\ \A n \in Names :
          files[n].kind = "image" => files[n].size = SizeInName(n)
    /\ img.kind = "image" => img.size = SizeCreatedBefore(pc)

C1_Witness ==
    /\ status = "done"
    /\ SavedNames = Names
    /\ \A n \in Names : files[n].kind = "image" /\ Len(files[n].ops) >= 3

(***************************************************************************)
(* C2 (as amended): a run that completes has written the three fixed file  *)
(* names, also when they existed before, so that each of them holds what   *)
(* this run drew; no other file of the directory is created, changed or    *)
(* removed.                                                                *)
(***************************************************************************)
C2_OverwritesFixedNames ==
    /\ status = "done" =>
          /\ Len(saved) = 3
          /\ \A i \in 1..3 :
                /\ saved[i].name = NameOrder[i]
                /\ files[saved[i].name] = saved[i].content
                /\ saved[i].content.kind = "image"
    /\ files[Other] = atStart[Other]
    /\ SavedNames \subseteq Names

\* A second run completed over the three files of an earlier run and left
\* other content in at least one of them.
C2_Witness ==
    /\ status = "done"
    /\ run = 2
    /\ \A n \in Names : atStart[n].kind = "image"
    /\ \E n \in Names : files[n] # atStart[n]
    /\ files[Other] = Old

\* C2 as stated: after a completed run the directory holds exactly the
\* three files.
C2_Original ==
    status = "done" => {n \in AllNames : files[n] # Absent} = Names

(***************************************************************************)
(* C3: the directory is created, if absent, by the first statement, before *)
(* any canvas is created or saved; when the directory exists the statement *)
(* succeeds and leaves the directory and its files as they were; and the   *)
(* run goes on to the same statement in the same state either way.         *)
(***************************************************************************)
C3_MakeDirsIdempotent ==
    /\ pc = 1 => /\ img = None /\ created = 0 /\ saved = <<>>
                 /\ files = atStart /\ stdout = <<>>
    /\ (pc = 1 /\ status = "crashed") => dirState # "dir"
    /\ pc > 1 => dirState = "dir"
    /\ (pc = 2 /\ status = "running") =>
          /\ files = atStart
          /\ img = None /\ created = 0 /\ saved = <<>> /\ stdout = <<>>
          /\ \A v \in FontVars : fonts[v] = None

\* The directory was there, with files in it, and the run went past makedirs.
C3_Witness ==
    /\ pc = 2 /\ status = "running"
    /\ run = 2
    /\ \E n \in Names : files[n].kind = "image"
    /\ files[Other] = Old

(***************************************************************************)
(* C4: every call of font() yields a font, the requested one or, when the  *)
(* font file cannot be loaded, the built-in default; it never raises.  So  *)
(* no run ends at a font statement: a run that crashed stands at makedirs  *)
(* or at a save, and a run that is done has saved all three images and     *)
(* printed its four lines, whichever of the calls fell back.               *)
(***************************************************************************)
C4_FontFallback ==
    /\ status = "crashed" => Stmt.op \in {"makedirs", "save"}
    /\ \A i \in 1..Len(Prog) :
          (Prog[i].op = "font" /\ pc > i) =>
              fonts[Prog[i].var].kind \in {"truetype", "default"}
    /\ (LastOp.op = "font" /\ ~fontAvail /\ flips = 0) =>
          fonts[LastOp.var] = load_default
    /\ status = "done" =>
          /\ SavedNames = Names
          /\ \A n \in Names : files[n].kind = "image"
          /\ \A l \in {BannerLine, IdleLine, SideLine, SummaryLine} :
                \E i \in 1..Len(stdout) : stdout[i] = l

\* A run completed in which some calls of font() fell back and some did not.
C4_Witness ==
    /\ status = "done"
    /\ \E v \in FontVars : fonts[v] = load_default
    /\ \E v \in FontVars : fonts[v].kind = "truetype"
    /\ SavedNames = Names

(***************************************************************************)
(* C5 (as amended): a run that completes has printed the confirmation      *)
(* lines for banner, idle and side in this order, then an empty line, then *)
(* the summary line naming the output directory, and nothing else; at      *)
(* every moment of a run the output is a beginning of these five lines.    *)
(***************************************************************************)
C5_OutputLines ==
    LET all == <<BannerLine, IdleLine, SideLine, "", SummaryLine>>
    IN  /\ IsPrefix(stdout, all)
        /\ status = "done" => stdout = all

\* A run completed and printed its lines, with a font fallback taken.
C5_Witness ==
    /\ status = "done"
    /\ Len(stdout) = 5
    /\ \E v \in FontVars : fonts[v] = load_default

\* C5 as stated: three confirmation lines followed by the summary line, and
\* no other line.
C5_Original ==
    status = "done" => stdout = <<BannerLine, IdleLine, SideLine, SummaryLine>>

(***************************************************************************)
(* C6: center_text draws the text once, at the horizontal offset           *)
(* (img_w - tw) / 2, tw being right minus left edge of the bounding box of *)
(* the text measured at the origin, also when tw exceeds img_w (the offset *)
(* is then negative), and at the vertical offset it was given.             *)
(***************************************************************************)
C6_CenterOffset ==
    call.kind = "center_text" =>
        LET tw == call.bbox[3] - call.bbox[1]
            x == LastDrawn.xy[1]
        IN  /\ LastDrawn.kind = "text"
            /\ x.d > 0
            /\ 2 * x.n = (call.img_w - tw) * x.d
            /\ LastDrawn.xy[2] = call.y
            /\ LastDrawn.text = call.text
            /\ LastDrawn.font = call.fnt
            /\ NumOps(img, "text") =
                  Cardinality({i \in 1..(pc - 1) :
                                  /\ Prog[i].op = "text"
                                  /\ \A j \in i..(pc - 1) : Prog[j].op # "new"})

\* A text wider than the surface was drawn, at a negative offset.
C6_Witness ==
    /\ call.kind = "center_text"
    /\ call.bbox[3] - call.bbox[1] > call.img_w
    /\ LastDrawn.xy[1].n < 0

(***************************************************************************)
(* C7 (as amended): each image has one or two rules and two to four        *)
(* centered text lines when it is saved: banner 1 and 2, idle 2 and 4,     *)
(* side 2 and 2.                                                           *)
(***************************************************************************)
C7_DrawCounts ==
    \A i \in 1..Len(saved) :
        LET im == saved[i].content
        IN  /\ NumOps(im, "line") \in {1, 2}
            /\ NumOps(im, "text") \in 2..4
            /\ Len(im.ops) = NumOps(im, "line") + NumOps(im, "text")
            /\ saved[i].name = BannerName =>
                  NumOps(im, "line") = 1 /\ NumOps(im, "text") = 2
            /\ saved[i].name = IdleName =>
                  NumOps(im, "line") = 2 /\ NumOps(im, "text") = 4
            /\ saved[i].name = SideName =>
                  NumOps(im, "line") = 2 /\ NumOps(im, "text") = 2

\* The idle image was saved with its four text lines.
C7_Witness ==
    \E i \in 1..Len(saved) :
        saved[i].name = IdleName /\ NumOps(saved[i].content, "text") = 4

\* C7 as stated: one or two rules and two or three text lines in every image.
C7_Original ==
    \A i \in 1..Len(saved) :
        /\ NumOps(saved[i].content, "line") \in {1, 2}
        /\ NumOps(saved[i].content, "text") \in {2, 3}

(***************************************************************************)
(* C8: the images are made one after another: rules and texts are drawn on *)
(* a canvas that has been created and is not saved yet, a canvas is        *)
(* created only when every earlier one is saved, and the confirmation line *)
(* of an image is printed only when its file is saved; so the number of    *)
(* confirmation lines never exceeds the number of files saved.             *)
(***************************************************************************)
C8_OneAfterAnother ==
    /\ Len(saved) <= created /\ created <= Len(saved) + 1
    /\ NumConfirm <= Len(saved)
    /\ Stmt.op \in {"line", "text", "save"} =>
          img.kind = "image" /\ created = Len(saved) + 1
    /\ (LastOp.op \in {"line", "text"} /\ img.kind = "image") =>
          Len(img.ops) > 0 /\ created = Len(saved) + 1
    /\ Stmt.op = "new" => created = Len(saved)
    /\ \A k \in 1..3 :
          (\E i \in 1..Len(stdout) : stdout[i] = ConfirmLines[k]) =>
              /\ Len(saved) >= k
              /\ saved[k].name = NameOrder[k]
              /\ files[NameOrder[k]] = saved[k].content

\* The third canvas is being drawn with two images saved and confirmed.
C8_Witness ==
    /\ status = "running"
    /\ created = 3 /\ Len(saved) = 2 /\ NumConfirm = 2
    /\ Len(img.ops) > 0

(***************************************************************************)
(* C9: a failure of makedirs or of a save ends the run at that statement:  *)
(* a run goes past a save only with the file saved; a crashed run has      *)
(* printed the confirmation lines of the images saved before and nothing   *)
(* else (no summary), has written no file of a later image, and the files  *)
(* saved before the failure are still there with their content.            *)
(***************************************************************************)
C9_UncaughtFailure ==
    /\ status = "crashed" =>
          /\ Stmt.op \in {"makedirs", "save"}
          /\ stdout = SubSeq(ConfirmLines, 1, Len(saved))
          /\ \A k \in 1..3 : k > Len(saved) + 1 =>
                files[NameOrder[k]] = atStart[NameOrder[k]]
          /\ Stmt.op = "save" => Stmt.name = NameOrder[Len(saved) + 1]
          /\ Stmt.op = "makedirs" => saved = <<>> /\ files = atStart
    /\ \A i \in 1..Len(saved) :
          /\ saved[i].name = NameOrder[i]
          /\ files[saved[i].name] = saved[i].content
    /\ status # "crashed" =>
          \A i \in 1..Len(Prog) :
              (Prog[i].op = "save" /\ pc > i) => Prog[i].name \in SavedNames

\* The save of the idle image failed: the banner is saved and confirmed, the
\* side image was not written.
C9_Witness ==
    /\ status = "crashed"
    /\ Stmt.op = "save" /\ Stmt.name = IdleName
    /\ stdout = <<BannerLine>>
    /\ files[BannerName] = saved[1].content
    /\ files[IdleName] = Partial
    /\ files[SideName] = atStart[SideName]

(***************************************************************************)
(* C10: the text drawn by center_text has equal margins: the distance from *)
(* the left edge of the surface to the left edge of the text equals the    *)
(* distance from the right edge of the text to the right edge of the       *)
(* surface, for every bounding box the library reports, also when its left *)
(* edge is not 0.  (Text drawn at x shows from x + left to x + right.)     *)
(***************************************************************************)
C10_EqualMargins ==
    call.kind = "center_text" =>
        LET x == LastDrawn.xy[1]
            leftMargin == x.n + x.d * call.bbox[1]
            rightMargin == x.d * call.img_w - (x.n + x.d * call.bbox[3])
        IN  leftMargin = rightMargin

====
